---- MODULE Spec2Model ----
(***************************************************************************)
(* Model of the ESP32-CAM timelapse capture loop (esp32cam_timelapse.py):  *)
(* ESP32CamTimelapse.run and the methods it calls.  One action per         *)
(* statement group of run(); a KeyboardInterrupt may arrive between any    *)
(* two of them.                                                            *)
(*                                                                         *)
(* Time is counted in tenths of a second (time.sleep(0.2) is 2 ticks).     *)
(* Brightness values are integers (exactly representable floats); the      *)
(* running average sum/len is kept as the exact fraction <<sum, len>>.     *)
(***************************************************************************)
EXTENDS Integers, Sequences, FiniteSets, TLC

VARIABLES
    args,               \* self.args: the parsed command line
    camera,             \* the device and its scene: what /capture can answer
    pc,                 \* position of run()
    cfg_i,              \* configure_camera: settings already sent
    frame_number,       \* self.frame_number
    current_led,        \* self.current_led
    brightness_history, \* self.brightness_history
    captured_count,     \* run(): captured_count
    attempt,            \* capture_with_adaptive_led: attempt
    image,              \* capture_with_adaptive_led / run: image
    brightness,         \* run(): brightness
    led,                \* run(): led
    adjustment,         \* run(): adjustment
    elapsed,            \* time.time() - cycle_start, in ticks
    slept,              \* duration of the end-of-cycle time.sleep, <<>> if none
    images,             \* <basename>_NNNNN.jpg files written by this run
    metas,              \* <basename>_NNNNN.json files written by this run
    led_cmd,            \* last led_intensity value sent to /control, <<>> if none
    cycles,             \* one record per cycle started: its number, its outcome so far,
                        \* and current_led and brightness_history as it started
    accepted,           \* the samples passed to update_brightness_history, in order
    interrupted,        \* run(): the except KeyboardInterrupt branch was taken
    logged_last,        \* the "last frame" number of the final log line, <<>> if none
    probe,              \* run(): what test_connection returned, <<>> before the call
    cfg_failed,         \* configure_camera: some set_control returned False
    tries,              \* the outcomes of the attempts of the current cycle, in order
    requests,           \* the requests sent to the camera in the current attempt
    sleeps              \* the time.sleep calls made since the run or the cycle
                        \* started, in order, each by its place in the code

vars == <<args, camera, pc, cfg_i, frame_number, current_led, brightness_history,
          captured_count, attempt, image, brightness, led, adjustment, elapsed,
          slept, images, metas, led_cmd, cycles, accepted, interrupted, logged_last,
          probe, cfg_failed, tries, requests, sleeps>>

----------------------------------------------------------------------------
\* Bounds of the model.

\* largest --frames of the short runs
MaxFrames == 3
\* largest --max-retries of the short runs
MaxRetries == 3
\* --frames of the long run, which fills the brightness window and evicts
LongFrames == 11

----------------------------------------------------------------------------
\* Program constants.

\* update_brightness_history: window size
HistoryMax == 10
\* calculate_led_adjustment: proportional divisor
StepDivisor == 8
\* calculate_led_adjustment: largest step
StepMax == 20
\* run(): actuator range
LedMax == 255
\* configure_camera: number of entries of settings
NumSettings == 26
\* capture_with_adaptive_led: time.sleep(0.2)
SettleDelay == 2
\* capture_with_adaptive_led: time.sleep(1) after a failed capture
ErrorBackoff == 10
\* capture_with_adaptive_led: time.sleep(0.5) after a rejected sample
RejectBackoff == 5
\* capture_image: timeout=15
CaptureTimeout == 150
\* calculate_brightness: the largest value of an 8-bit 'L' pixel
PixelMax == 255

----------------------------------------------------------------------------
\* Python builtins.

Abs(x) == IF x < 0 THEN -x ELSE x
Max(a, b) == IF a >= b THEN a ELSE b
Min(a, b) == IF a <= b THEN a ELSE b

RECURSIVE Sum(_)
Sum(s) == IF s = <<>> THEN 0 ELSE Head(s) + Sum(Tail(s))


\* faulty variant: floor division for the truncation of int()
TruncDiv_Floor(a, b) == a \div b

\* int(a / b) for b > 0: float division, then truncation toward zero
TruncDiv(a, b) == IF a >= 0 THEN a \div b ELSE -((-a) \div b)

\* Optional values: None is the empty tuple, a value v is <<v>>.
None == <<>>

\* an Image.Image: its mean luminance, and whether its data decodes
NoImage == [kind |-> "none", lum |-> 0]
Jpeg(b) == [kind |-> "jpeg", lum |-> b]
Truncated == [kind |-> "truncated", lum |-> 0]

EmptyDir == [n \in {} |-> 0]
WriteFile(dir, n, content) ==
    [k \in DOMAIN dir \cup {n} |-> IF k = n THEN content ELSE dir[k]]

----------------------------------------------------------------------------
\* The command line (main) and the device.

Defaults ==
    [ frames |-> 100, start_frame |-> 0, interval |-> 300,
      save_metadata |-> TRUE, led_initial |-> 50, led_always_on |-> FALSE,
      target_brightness |-> 128, brightness_tolerance |-> 30,
      consistency_tolerance |-> 40, max_retries |-> 3 ]

\* python esp32cam_timelapse.py ... --interval 20
Usage == [Defaults EXCEPT !.interval = 20]

\* a camera whose captures may fail, be slow, or show any of these scenes
Scene == {80, 120, 160, 170}
FlakyCamera == [levels |-> Scene, latencies |-> {1}, faults |-> TRUE]
SlowCamera == [levels |-> {120}, latencies |-> {1, CaptureTimeout}, faults |-> TRUE]
SteadyCamera == [levels |-> {120, 130}, latencies |-> {1}, faults |-> FALSE]

\* --led-initial is type=int: any integer is accepted
LedInitials == {0, 250, 300}

ShortRuns ==
    { <<[Usage EXCEPT !.frames = f, !.max_retries = r], FlakyCamera>> :
        f \in 0..MaxFrames, r \in 0..MaxRetries }
    \cup
    { <<[Usage EXCEPT !.frames = MaxFrames, !.max_retries = r], SlowCamera>> :
        r \in 1..MaxRetries }
    \cup
    { <<[Usage EXCEPT !.frames = MaxFrames, !.max_retries = 1,
                      !.led_initial = l, !.led_always_on = a], FlakyCamera>> :
        l \in LedInitials, a \in BOOLEAN }
    \cup
    { <<[Usage EXCEPT !.frames = MaxFrames, !.max_retries = 1,
                      !.start_frame = 516, !.save_metadata = FALSE], FlakyCamera>> }
    \cup
    { <<[Usage EXCEPT !.frames = MaxFrames, !.max_retries = 1,
                      !.start_frame = 99999], FlakyCamera>> }

LongRuns ==
    { <<[Usage EXCEPT !.frames = LongFrames, !.max_retries = 1], SteadyCamera>> }

Runs == ShortRuns \cup LongRuns

----------------------------------------------------------------------------
\* ESP32CamTimelapse: the pure methods.

get_running_average ==
    IF brightness_history = <<>>
    THEN None
    ELSE <<Sum(brightness_history), Len(brightness_history)>>

\* faulty variant: the window is never trimmed
update_brightness_history_NoEvict(b) == Append(brightness_history, b)

\* faulty variant: pop() for pop(0), the newest sample is dropped, not the oldest
update_brightness_history_PopNewest(b) ==
    IF Len(brightness_history) >= HistoryMax
    THEN brightness_history
    ELSE Append(brightness_history, b)

update_brightness_history(b) ==
    LET appended == Append(brightness_history, b)
    IN  IF Len(appended) > HistoryMax THEN Tail(appended) ELSE appended

\* faulty variant: < for <=
is_consistent_Strict(b) ==
    LET avg == get_running_average
    IN  IF avg = None
        THEN TRUE
        ELSE Abs(b * avg[2] - avg[1]) < args.consistency_tolerance * avg[2]

\* abs(brightness - avg) <= tolerance with avg = sum/len, both sides times len
is_consistent(b) ==
    LET avg == get_running_average
    IN  IF avg = None
        THEN TRUE
        ELSE Abs(b * avg[2] - avg[1]) <= args.consistency_tolerance * avg[2]

\* faulty variant: deviation // 8 (floor) for int(deviation / 8)
calculate_led_adjustment_Floor(b) ==
    LET deviation == args.target_brightness - b
    IN  IF Abs(deviation) <= args.brightness_tolerance
        THEN 0
        ELSE Max(-StepMax, Min(StepMax, deviation \div StepDivisor))

calculate_led_adjustment(b) ==
    LET deviation == args.target_brightness - b
    IN  IF Abs(deviation) <= args.brightness_tolerance
        THEN 0
        ELSE Max(-StepMax, Min(StepMax, TruncDiv(deviation, StepDivisor)))

end_frame == args.start_frame + args.frames

----------------------------------------------------------------------------
\* File names: generate_filename (capture) and find_images (assembly).
\* A name is the sequence <<basename, "_", digit, ..., digit, ".jpg">>.

\* --basename default
Basename == "frame"

\* the minimum field width of the format spec :05d
NameWidth == 5

\* the repetition count of \d{5} in the assembler's pattern
PatternWidth == 5

Digits == <<"0", "1", "2", "3", "4", "5", "6", "7", "8", "9">>

\* the decimal digits of a natural number, most significant first
RECURSIVE DecDigits(_)
DecDigits(n) ==
    IF n < 10 THEN <<Digits[n + 1]>>
    ELSE Append(DecDigits(n \div 10), Digits[(n % 10) + 1])

\* zero fill on the left up to a minimum width; longer strings are kept whole
RECURSIVE ZeroPad(_, _)
ZeroPad(s, w) == IF Len(s) >= w THEN s ELSE ZeroPad(<<"0">> \o s, w)

\* format(n, "05d"): the sign counts in the width
Format05d(n) ==
    IF n >= 0 THEN ZeroPad(DecDigits(n), NameWidth)
    ELSE <<"-">> \o ZeroPad(DecDigits(-n), NameWidth - 1)

\* f"{self.args.basename}_{self.frame_number:05d}.jpg"
generate_filename(n) == <<Basename, "_">> \o Format05d(n) \o <<".jpg">>

\* the image files of the output directory, by name
Listing == { generate_filename(n) : n \in DOMAIN images }

\* pattern.match(img_path.name): ^basename_(\d{5})\.jpg$
PatternMatch(name) ==
    /\ Len(name) = PatternWidth + 3
    /\ name[1] = Basename
    /\ name[2] = "_"
    /\ name[Len(name)] = ".jpg"
    /\ \A k \in 3..(Len(name) - 1) : \E d \in DOMAIN Digits : Digits[d] = name[k]

\* int(s) for a string of decimal digits
RECURSIVE ParseInt(_)
ParseInt(s) ==
    IF s = <<>> THEN 0
    ELSE 10 * ParseInt(SubSeq(s, 1, Len(s) - 1))
         + (CHOOSE d \in 0..9 : Digits[d + 1] = s[Len(s)])

\* frame_num = int(match.group(1))
FrameOf(name) == ParseInt(SubSeq(name, 3, Len(name) - 1))

\* sorted(captures, key=lambda x: x['frame']), on a set of distinct numbers
RECURSIVE SortedSeq(_)
SortedSeq(S) ==
    IF S = {} THEN <<>>
    ELSE LET m == CHOOSE x \in S : \A y \in S : x <= y
         IN <<m>> \o SortedSeq(S \ {m})

\* find_images: the frame numbers of the matching names, ascending
find_images(dir) == SortedSeq({ FrameOf(name) : name \in { x \in dir : PatternMatch(x) } })

----------------------------------------------------------------------------
\* __init__

InitWith(a, c, at) ==
    /\ args = a
    /\ camera = c
    /\ pc = at
    /\ cfg_i = 0
    /\ frame_number = args.start_frame
    /\ current_led = args.led_initial
    /\ brightness_history = <<>>
    /\ captured_count = 0
    /\ attempt = 0
    /\ image = NoImage
    /\ brightness = 0
    /\ led = 0
    /\ adjustment = 0
    /\ elapsed = 0
    /\ slept = None
    /\ images = EmptyDir
    /\ metas = EmptyDir
    /\ led_cmd = None
    /\ cycles = <<>>
    /\ accepted = <<>>
    /\ interrupted = FALSE
    /\ logged_last = None
    /\ probe = None
    /\ cfg_failed = FALSE
    /\ tries = <<>>
    /\ requests = <<>>
    /\ sleeps = <<>>

\* controller = ESP32CamTimelapse(args); controller.run()
Init == \E run \in Runs : InitWith(run[1], run[2], "probe")

----------------------------------------------------------------------------
\* run(): connection test and configuration.

\* faulty variant: run() goes on whatever test_connection returned
TestConnection_Ignored ==
    /\ pc = "probe"
    /\ \E ok \in BOOLEAN : probe' = <<ok>>
    /\ pc' = "configure"
    /\ UNCHANGED <<args, camera, cfg_i, frame_number, current_led,
                   brightness_history, captured_count, attempt, image,
                   brightness, led, adjustment, elapsed, slept, images, metas,
                   led_cmd, cycles, accepted, interrupted, logged_last,
                   cfg_failed, tries, requests, sleeps>>

\* test_connection: GET /status answers 200, or anything else
TestConnection ==
    /\ pc = "probe"
    /\ \E ok \in BOOLEAN :
          /\ probe' = <<ok>>
          /\ pc' = IF ok THEN "configure" ELSE "aborted"
    /\ UNCHANGED <<args, camera, cfg_i, frame_number, current_led,
                   brightness_history, captured_count, attempt, image, brightness,
                   led, adjustment, elapsed, slept, images, metas, led_cmd, cycles, accepted,
                   interrupted, logged_last, cfg_failed, tries, requests, sleeps>>

\* faulty variant: configure_camera returns at the first setting that fails
ConfigureSetting_AbortOnFailure ==
    /\ pc = "configure"
    /\ cfg_i < NumSettings
    /\ cfg_i' = cfg_i + 1
    /\ \E ok \in (IF camera.faults THEN BOOLEAN ELSE {TRUE}) :
          /\ cfg_failed' = (cfg_failed \/ ~ok)
          /\ pc' = IF ok THEN pc ELSE "settle_config"
    /\ sleeps' = Append(sleeps, "setting")
    /\ UNCHANGED <<args, camera, frame_number, current_led,
                   brightness_history, captured_count, attempt, image,
                   brightness, led, adjustment, elapsed, slept, images, metas,
                   led_cmd, cycles, accepted, interrupted, logged_last, probe,
                   tries, requests>>

\* configure_camera: one set_control per setting, whatever it returns, then a sleep
ConfigureSetting ==
    /\ pc = "configure"
    /\ cfg_i < NumSettings
    /\ cfg_i' = cfg_i + 1
    /\ \E ok \in (IF camera.faults THEN BOOLEAN ELSE {TRUE}) :
          cfg_failed' = (cfg_failed \/ ~ok)
    /\ sleeps' = Append(sleeps, "setting")
    /\ UNCHANGED <<args, camera, pc, frame_number, current_led, brightness_history,
                   captured_count, attempt, image, brightness, led, adjustment,
                   elapsed, slept, images, metas, led_cmd, cycles, accepted, interrupted,
                   logged_last,
                   probe, tries, requests>>

\* configure_camera: set_control("led_intensity", self.current_led)
ConfigureLed ==
    /\ pc = "configure"
    /\ cfg_i = NumSettings
    /\ led_cmd' = <<current_led>>
    /\ pc' = "settle_config"
    /\ UNCHANGED <<args, camera, cfg_i, frame_number, current_led,
                   brightness_history, captured_count, attempt, image, brightness,
                   led, adjustment, elapsed, slept, images, metas, cycles, accepted,
                   interrupted, logged_last,
                   probe, cfg_failed, tries, requests, sleeps>>

\* run(): time.sleep(1) after configure_camera
SettleConfig ==
    /\ pc = "settle_config"
    /\ pc' = "loop"
    /\ sleeps' = Append(sleeps, "apply")
    /\ UNCHANGED <<args, camera, cfg_i, frame_number, current_led,
                   brightness_history, captured_count, attempt, image, brightness,
                   led, adjustment, elapsed, slept, images, metas, led_cmd, cycles, accepted,
                   interrupted, logged_last,
                   probe, cfg_failed, tries, requests>>

----------------------------------------------------------------------------
\* run(): the main loop.

\* while self.frame_number < end_frame: cycle_start = time.time(); "--- Frame"
CycleStart ==
    /\ pc = "loop"
    /\ frame_number < end_frame
    /\ elapsed' = 0
    /\ slept' = None
    /\ attempt' = 0
    /\ cycles' = Append(cycles, [frame |-> frame_number, outcome |-> "InFlight",
                                 led |-> current_led,
                                 history |-> brightness_history])
    /\ pc' = "attempt"
    /\ tries' = <<>>
    /\ requests' = <<>>
    /\ sleeps' = <<>>
    /\ UNCHANGED <<args, camera, cfg_i, frame_number, current_led,
                   brightness_history, captured_count, image, brightness, led,
                   adjustment, images, metas, led_cmd, accepted, interrupted,
                   logged_last,
                   probe, cfg_failed>>

\* the while condition is false
LoopExit ==
    /\ pc = "loop"
    /\ ~(frame_number < end_frame)
    /\ pc' = "finish"
    /\ UNCHANGED <<args, camera, cfg_i, frame_number, current_led,
                   brightness_history, captured_count, attempt, image, brightness,
                   led, adjustment, elapsed, slept, images, metas, led_cmd, cycles, accepted,
                   interrupted, logged_last,
                   probe, cfg_failed, tries, requests, sleeps>>

\* faulty variant: the attempt goes to the capture without setting the LED
SetLed_Skipped ==
    /\ pc = "attempt"
    /\ attempt < args.max_retries
    /\ requests' = <<>>
    /\ pc' = "settle"
    /\ UNCHANGED <<args, camera, cfg_i, frame_number, current_led,
                   brightness_history, captured_count, attempt, image,
                   brightness, led, adjustment, elapsed, slept, images, metas,
                   led_cmd, cycles, accepted, interrupted, logged_last, probe,
                   cfg_failed, tries, sleeps>>

\* capture_with_adaptive_led: for attempt in range(max_retries): set the LED
SetLed ==
    /\ pc = "attempt"
    /\ attempt < args.max_retries
    /\ led_cmd' = <<current_led>>
    /\ pc' = "settle"
    /\ requests' = <<"led">>
    /\ UNCHANGED <<args, camera, cfg_i, frame_number, current_led,
                   brightness_history, captured_count, attempt, image, brightness,
                   led, adjustment, elapsed, slept, images, metas, cycles, accepted,
                   interrupted, logged_last,
                   probe, cfg_failed, tries, sleeps>>

\* faulty variant: after a cycle of rejected samples the history restarts
\* from the last sample seen
RetriesExhausted_Rebaseline ==
    /\ pc = "attempt"
    /\ ~(attempt < args.max_retries)
    /\ image' = NoImage
    /\ brightness' = 0
    /\ led' = current_led
    /\ brightness_history' =
          IF tries # <<>> /\ tries[Len(tries)] = "rejected"
          THEN <<brightness>> ELSE brightness_history
    /\ pc' = "skip"
    /\ UNCHANGED <<args, camera, cfg_i, frame_number, current_led,
                   captured_count, attempt, adjustment, elapsed, slept, images,
                   metas, led_cmd, cycles, accepted, interrupted, logged_last,
                   probe, cfg_failed, tries, requests, sleeps>>

\* capture_with_adaptive_led: the range is exhausted, return None, 0.0, current_led
RetriesExhausted ==
    /\ pc = "attempt"
    /\ ~(attempt < args.max_retries)
    /\ image' = NoImage
    /\ brightness' = 0
    /\ led' = current_led
    /\ pc' = "skip"
    /\ UNCHANGED <<args, camera, cfg_i, frame_number, current_led,
                   brightness_history, captured_count, attempt, adjustment,
                   elapsed, slept, images, metas, led_cmd, cycles, accepted, interrupted,
                   logged_last,
                   probe, cfg_failed, tries, requests, sleeps>>

\* capture_with_adaptive_led: time.sleep(0.2)
Settle ==
    /\ pc = "settle"
    /\ elapsed' = elapsed + SettleDelay
    /\ pc' = "capture"
    /\ sleeps' = Append(sleeps, "settle")
    /\ UNCHANGED <<args, camera, cfg_i, frame_number, current_led,
                   brightness_history, captured_count, attempt, image, brightness,
                   led, adjustment, slept, images, metas, led_cmd, cycles, accepted,
                   interrupted, logged_last,
                   probe, cfg_failed, tries, requests>>

\* what capture_image can return: an image, or None on a transport error, a
\* non-200 status or bytes Image.open cannot identify.  Image.open is lazy:
\* a truncated JPEG opens and fails only when its pixels are read.
CaptureResults ==
    { Jpeg(b) : b \in camera.levels }
    \cup (IF camera.faults THEN {NoImage, Truncated} ELSE {})

\* capture_image
CaptureImage ==
    /\ pc = "capture"
    /\ \E lat \in camera.latencies, result \in CaptureResults :
          /\ elapsed' = elapsed + lat
          /\ image' = result
    /\ pc' = "led_off"
    /\ requests' = Append(requests, "capture")
    /\ UNCHANGED <<args, camera, cfg_i, frame_number, current_led,
                   brightness_history, captured_count, attempt, brightness, led,
                   adjustment, slept, images, metas, led_cmd, cycles, accepted, interrupted,
                   logged_last,
                   probe, cfg_failed, tries, sleeps>>

\* faulty variant: the LED is turned off only after a successful capture
LedOff_OnSuccessOnly ==
    /\ pc = "led_off"
    /\ led_cmd' = IF args.led_always_on \/ image = NoImage THEN led_cmd ELSE <<0>>
    /\ requests' = IF args.led_always_on \/ image = NoImage
                   THEN requests ELSE Append(requests, "off")
    /\ pc' = "evaluate"
    /\ UNCHANGED <<args, camera, cfg_i, frame_number, current_led,
                   brightness_history, captured_count, attempt, image,
                   brightness, led, adjustment, elapsed, slept, images, metas,
                   cycles, accepted, interrupted, logged_last, probe,
                   cfg_failed, tries, sleeps>>

\* if not self.args.led_always_on: set_control("led_intensity", 0)
LedOff ==
    /\ pc = "led_off"
    /\ led_cmd' = IF args.led_always_on THEN led_cmd ELSE <<0>>
    /\ pc' = "evaluate"
    /\ requests' = IF args.led_always_on THEN requests ELSE Append(requests, "off")
    /\ UNCHANGED <<args, camera, cfg_i, frame_number, current_led,
                   brightness_history, captured_count, attempt, image, brightness,
                   led, adjustment, elapsed, slept, images, metas, cycles, accepted,
                   interrupted, logged_last,
                   probe, cfg_failed, tries, sleeps>>

\* faulty variant: a failed capture raises the LED level for the next attempt
CaptureFailed_Boost ==
    /\ pc = "evaluate"
    /\ image = NoImage
    /\ elapsed' = elapsed + ErrorBackoff
    /\ attempt' = attempt + 1
    /\ current_led' = Min(LedMax, current_led + StepMax)
    /\ pc' = "attempt"
    /\ tries' = Append(tries, "error")
    /\ sleeps' = Append(sleeps, "error_backoff")
    /\ UNCHANGED <<args, camera, cfg_i, frame_number, brightness_history,
                   captured_count, image, brightness, led, adjustment, slept,
                   images, metas, led_cmd, cycles, accepted, interrupted,
                   logged_last, probe, cfg_failed, requests>>

\* if image is None: warning, time.sleep(1), continue
CaptureFailed ==
    /\ pc = "evaluate"
    /\ image = NoImage
    /\ elapsed' = elapsed + ErrorBackoff
    /\ attempt' = attempt + 1
    /\ pc' = "attempt"
    /\ tries' = Append(tries, "error")
    /\ sleeps' = Append(sleeps, "error_backoff")
    /\ UNCHANGED <<args, camera, cfg_i, frame_number, current_led,
                   brightness_history, captured_count, image, brightness, led,
                   adjustment, slept, images, metas, led_cmd, cycles, accepted, interrupted,
                   logged_last,
                   probe, cfg_failed, requests>>

\* calculate_brightness raises on a truncated image; nothing in run() catches it
BrightnessRaises ==
    /\ pc = "evaluate"
    /\ image = Truncated
    /\ pc' = "crashed"
    /\ UNCHANGED <<args, camera, cfg_i, frame_number, current_led,
                   brightness_history, captured_count, attempt, image, brightness,
                   led, adjustment, elapsed, slept, images, metas, led_cmd, cycles, accepted,
                   interrupted, logged_last,
                   probe, cfg_failed, tries, requests, sleeps>>

\* faulty variant: the rejected sample is entered into the history
Rejected_Polluting ==
    /\ pc = "evaluate"
    /\ image.kind = "jpeg"
    /\ ~is_consistent(image.lum)
    /\ brightness' = image.lum
    /\ brightness_history' = update_brightness_history(image.lum)
    /\ elapsed' = elapsed + RejectBackoff
    /\ attempt' = attempt + 1
    /\ pc' = "attempt"
    /\ tries' = Append(tries, "rejected")
    /\ sleeps' = Append(sleeps, "reject_backoff")
    /\ UNCHANGED <<args, camera, cfg_i, frame_number, current_led, captured_count,
                   image, led, adjustment, slept, images, metas, led_cmd, cycles,
                   accepted, interrupted, logged_last,
                   probe, cfg_failed, requests>>

\* if not self.is_consistent(brightness): warning, time.sleep(0.5), continue
Rejected ==
    /\ pc = "evaluate"
    /\ image.kind = "jpeg"
    /\ ~is_consistent(image.lum)
    /\ brightness' = image.lum
    /\ elapsed' = elapsed + RejectBackoff
    /\ attempt' = attempt + 1
    /\ pc' = "attempt"
    /\ tries' = Append(tries, "rejected")
    /\ sleeps' = Append(sleeps, "reject_backoff")
    /\ UNCHANGED <<args, camera, cfg_i, frame_number, current_led,
                   brightness_history, captured_count, image, led, adjustment,
                   slept, images, metas, led_cmd, cycles, accepted, interrupted, logged_last,
                   probe, cfg_failed, requests>>

\* faulty variant: the return is missing, the loop goes on after an accepted sample
Accepted_NoReturn ==
    /\ pc = "evaluate"
    /\ image.kind = "jpeg"
    /\ is_consistent(image.lum)
    /\ brightness' = image.lum
    /\ tries' = Append(tries, "accepted")
    /\ attempt' = attempt + 1
    /\ pc' = "attempt"
    /\ UNCHANGED <<args, camera, cfg_i, frame_number, current_led,
                   brightness_history, captured_count, image, led, adjustment,
                   elapsed, slept, images, metas, led_cmd, cycles, accepted,
                   interrupted, logged_last, probe, cfg_failed, requests, sleeps>>

\* return image, brightness, self.current_led; run(): image is not None
Accepted ==
    /\ pc = "evaluate"
    /\ image.kind = "jpeg"
    /\ is_consistent(image.lum)
    /\ brightness' = image.lum
    /\ led' = current_led
    /\ pc' = "save_image"
    /\ tries' = Append(tries, "accepted")
    /\ UNCHANGED <<args, camera, cfg_i, frame_number, current_led,
                   brightness_history, captured_count, attempt, image, adjustment,
                   elapsed, slept, images, metas, led_cmd, cycles, accepted, interrupted,
                   logged_last,
                   probe, cfg_failed, requests, sleeps>>

\* faulty variant: the skip path forgets self.frame_number += 1
SkipFrame_NoAdvance ==
    /\ pc = "skip"
    /\ cycles' = [cycles EXCEPT ![Len(cycles)].outcome = "Skipped"]
    /\ pc' = "skip_sleep"
    /\ UNCHANGED <<args, camera, cfg_i, frame_number, current_led,
                   brightness_history, captured_count, attempt, image, brightness,
                   led, adjustment, elapsed, slept, images, metas, led_cmd,
                   accepted, interrupted, logged_last,
                   probe, cfg_failed, tries, requests, sleeps>>

\* if image is None: error, self.frame_number += 1
SkipFrame ==
    /\ pc = "skip"
    /\ frame_number' = frame_number + 1
    /\ cycles' = [cycles EXCEPT ![Len(cycles)].outcome = "Skipped"]
    /\ pc' = "skip_sleep"
    /\ UNCHANGED <<args, camera, cfg_i, current_led, brightness_history,
                   captured_count, attempt, image, brightness, led, adjustment,
                   elapsed, slept, images, metas, led_cmd, accepted,
                   interrupted, logged_last,
                   probe, cfg_failed, tries, requests, sleeps>>

\* time.sleep(self.args.interval); continue
SkipSleep ==
    /\ pc = "skip_sleep"
    /\ slept' = <<args.interval * 10>>
    /\ pc' = "loop"
    /\ sleeps' = Append(sleeps, "cadence")
    /\ UNCHANGED <<args, camera, cfg_i, frame_number, current_led,
                   brightness_history, captured_count, attempt, image, brightness,
                   led, adjustment, elapsed, images, metas, led_cmd, cycles, accepted,
                   interrupted, logged_last,
                   probe, cfg_failed, tries, requests>>

\* save_image: image.save(filepath, "JPEG", quality=95), or it raises
SaveImage ==
    /\ pc = "save_image"
    /\ \/ /\ images' = WriteFile(images, frame_number, brightness)
          /\ pc' = IF args.save_metadata THEN "save_meta" ELSE "update_history"
       \/ /\ camera.faults
          /\ pc' = "crashed"
          /\ UNCHANGED images
    /\ UNCHANGED <<args, camera, cfg_i, frame_number, current_led,
                   brightness_history, captured_count, attempt, image, brightness,
                   led, adjustment, elapsed, slept, metas, led_cmd, cycles,
                   accepted, interrupted, logged_last,
                   probe, cfg_failed, tries, requests, sleeps>>

\* faulty variant: the history is updated before the frame is saved
Metadata_AfterUpdate ==
    LET h == update_brightness_history(brightness)
    IN  [ frame |-> frame_number, brightness |-> brightness, led_intensity |-> led,
          running_avg |-> <<Sum(h), Len(h)>> ]

\* save_image: the metadata record
Metadata ==
    [ frame |-> frame_number, brightness |-> brightness, led_intensity |-> led,
      running_avg |-> get_running_average ]

\* faulty variant: the metadata file is named after the next frame number
SaveMeta_WrongName ==
    /\ pc = "save_meta"
    /\ metas' = WriteFile(metas, frame_number + 1, Metadata)
    /\ pc' = "update_history"
    /\ UNCHANGED <<args, camera, cfg_i, frame_number, current_led,
                   brightness_history, captured_count, attempt, image,
                   brightness, led, adjustment, elapsed, slept, images,
                   led_cmd, cycles, accepted, interrupted, logged_last, probe,
                   cfg_failed, tries, requests, sleeps>>

\* save_image: json.dump(metadata, f), or open/dump raises
SaveMeta ==
    /\ pc = "save_meta"
    /\ \/ /\ metas' = WriteFile(metas, frame_number, Metadata)
          /\ pc' = "update_history"
       \/ /\ camera.faults
          /\ pc' = "crashed"
          /\ UNCHANGED metas
    /\ UNCHANGED <<args, camera, cfg_i, frame_number, current_led,
                   brightness_history, captured_count, attempt, image, brightness,
                   led, adjustment, elapsed, slept, images, led_cmd, cycles,
                   accepted, interrupted, logged_last,
                   probe, cfg_failed, tries, requests, sleeps>>

\* self.update_brightness_history(brightness)
UpdateHistory ==
    /\ pc = "update_history"
    /\ brightness_history' = update_brightness_history(brightness)
    /\ accepted' = Append(accepted, brightness)
    /\ pc' = "adjust"
    /\ UNCHANGED <<args, camera, cfg_i, frame_number, current_led, captured_count,
                   attempt, image, brightness, led, adjustment, elapsed, slept,
                   images, metas, led_cmd, cycles, interrupted, logged_last,
                   probe, cfg_failed, tries, requests, sleeps>>

\* new_led = max(0, min(255, self.current_led + adjustment))
new_led(adj) == Max(0, Min(LedMax, current_led + adj))

\* faulty variant: a changed level is followed by a settle delay
AdjustLed_Settling ==
    /\ pc = "adjust"
    /\ adjustment' = calculate_led_adjustment(brightness)
    /\ current_led' = IF adjustment' # 0 THEN new_led(adjustment') ELSE current_led
    /\ sleeps' = IF adjustment' # 0 THEN Append(sleeps, "settle") ELSE sleeps
    /\ pc' = "advance"
    /\ UNCHANGED <<args, camera, cfg_i, frame_number, brightness_history,
                   captured_count, attempt, image, brightness, led, elapsed, slept,
                   images, metas, led_cmd, cycles, accepted, interrupted, logged_last,
                   probe, cfg_failed, tries, requests>>

\* adjustment = self.calculate_led_adjustment(brightness); if adjustment != 0: ...
AdjustLed ==
    /\ pc = "adjust"
    /\ adjustment' = calculate_led_adjustment(brightness)
    /\ current_led' = IF adjustment' # 0 THEN new_led(adjustment') ELSE current_led
    /\ pc' = "advance"
    /\ UNCHANGED <<args, camera, cfg_i, frame_number, brightness_history,
                   captured_count, attempt, image, brightness, led, elapsed, slept,
                   images, metas, led_cmd, cycles, accepted, interrupted, logged_last,
                   probe, cfg_failed, tries, requests, sleeps>>

\* faulty variant: the save path forgets self.frame_number += 1
Advance_NoIncrement ==
    /\ pc = "advance"
    /\ captured_count' = captured_count + 1
    /\ cycles' = [cycles EXCEPT ![Len(cycles)].outcome = "Completed"]
    /\ pc' = "wait"
    /\ UNCHANGED <<args, camera, cfg_i, frame_number, current_led,
                   brightness_history, attempt, image, brightness, led,
                   adjustment, elapsed, slept, images, metas, led_cmd,
                   accepted, interrupted, logged_last, probe, cfg_failed,
                   tries, requests, sleeps>>

\* self.frame_number += 1; captured_count += 1
Advance ==
    /\ pc = "advance"
    /\ frame_number' = frame_number + 1
    /\ captured_count' = captured_count + 1
    /\ cycles' = [cycles EXCEPT ![Len(cycles)].outcome = "Completed"]
    /\ pc' = "wait"
    /\ UNCHANGED <<args, camera, cfg_i, current_led, brightness_history, attempt,
                   image, brightness, led, adjustment, elapsed, slept, images,
                   metas, led_cmd, accepted, interrupted, logged_last,
                   probe, cfg_failed, tries, requests, sleeps>>

\* wait_time = max(0, self.args.interval - elapsed)
wait_time == Max(0, args.interval * 10 - elapsed)


\* faulty variant: the LED is set for the next capture before the cadence sleep
Wait_LedPreset ==
    /\ pc = "wait"
    /\ slept' = IF frame_number < end_frame /\ wait_time > 0
                THEN <<wait_time>> ELSE slept
    /\ sleeps' = IF frame_number < end_frame /\ wait_time > 0
                 THEN Append(sleeps, "cadence") ELSE sleeps
    /\ led_cmd' = <<current_led>>
    /\ pc' = "loop"
    /\ UNCHANGED <<args, camera, cfg_i, frame_number, current_led,
                   brightness_history, captured_count, attempt, image, brightness,
                   led, adjustment, elapsed, images, metas, cycles, accepted,
                   interrupted, logged_last, probe, cfg_failed, tries, requests>>

\* if self.frame_number < end_frame: ... if wait_time > 0: time.sleep(wait_time)
Wait ==
    /\ pc = "wait"
    /\ slept' = IF frame_number < end_frame /\ wait_time > 0
                THEN <<wait_time>> ELSE slept
    /\ pc' = "loop"
    /\ sleeps' = IF frame_number < end_frame /\ wait_time > 0
                 THEN Append(sleeps, "cadence") ELSE sleeps
    /\ UNCHANGED <<args, camera, cfg_i, frame_number, current_led,
                   brightness_history, captured_count, attempt, image, brightness,
                   led, adjustment, elapsed, images, metas, led_cmd, cycles, accepted,
                   interrupted, logged_last,
                   probe, cfg_failed, tries, requests>>

\* the positions of run() inside try:
TryBlock ==
    { "loop", "attempt", "settle", "capture", "led_off", "evaluate", "skip",
      "skip_sleep", "save_image", "save_meta", "update_history", "adjust",
      "advance", "wait" }

\* except KeyboardInterrupt: raised wherever the main thread is at the time
KeyboardInterrupt ==
    /\ pc \in TryBlock
    /\ interrupted' = TRUE
    /\ pc' = "finish"
    /\ UNCHANGED <<args, camera, cfg_i, frame_number, current_led,
                   brightness_history, captured_count, attempt, image, brightness,
                   led, adjustment, elapsed, slept, images, metas, led_cmd, cycles, accepted,
                   logged_last,
                   probe, cfg_failed, tries, requests, sleeps>>

\* "Timelapse complete: ... (last frame: {self.frame_number - 1:05d})"; return True
Finish ==
    /\ pc = "finish"
    /\ logged_last' = <<frame_number - 1>>
    /\ pc' = "done"
    /\ UNCHANGED <<args, camera, cfg_i, frame_number, current_led,
                   brightness_history, captured_count, attempt, image, brightness,
                   led, adjustment, elapsed, slept, images, metas, led_cmd, cycles, accepted,
                   interrupted,
                   probe, cfg_failed, tries, requests, sleeps>>

Next ==
    \/ TestConnection
    \/ ConfigureSetting
    \/ ConfigureLed
    \/ SettleConfig
    \/ CycleStart
    \/ LoopExit
    \/ SetLed
    \/ RetriesExhausted
    \/ Settle
    \/ CaptureImage
    \/ LedOff
    \/ CaptureFailed
    \/ BrightnessRaises
    \/ Rejected
    \/ Accepted
    \/ SkipFrame
    \/ SkipSleep
    \/ SaveImage
    \/ SaveMeta
    \/ UpdateHistory
    \/ AdjustLed
    \/ Advance
    \/ Wait
    \/ KeyboardInterrupt
    \/ Finish

Spec == Init /\ [][Next]_vars

----------------------------------------------------------------------------
\* calculate_led_adjustment called on a freshly constructed controller, for
\* every target and tolerance below and every brightness an image can have.

Targets == {0, 128, 255}
Tolerances == {0, 30}

UnitArgs ==
    { [Usage EXCEPT !.target_brightness = t, !.brightness_tolerance = tol] :
        t \in Targets, tol \in Tolerances }

InitUnit == \E a \in UnitArgs : InitWith(a, SteadyCamera, "unit")

CallAdjustment ==
    /\ pc = "unit"
    /\ \E b \in 0..PixelMax :
          /\ brightness' = b
          /\ adjustment' = calculate_led_adjustment(b)
    /\ pc' = "unit_done"
    /\ UNCHANGED <<args, camera, cfg_i, frame_number, current_led,
                   brightness_history, captured_count, attempt, image, led,
                   elapsed, slept, images, metas, led_cmd, cycles, accepted,
                   interrupted, logged_last,
                   probe, cfg_failed, tries, requests, sleeps>>

NextUnit == CallAdjustment

SpecUnit == InitUnit /\ [][NextUnit]_vars

----------------------------------------------------------------------------
\* Properties.

Resolved(c) == c.outcome \in {"Completed", "Skipped"}
LastCycle == cycles[Len(cycles)]
NumResolved == Cardinality({ i \in DOMAIN cycles : Resolved(cycles[i]) })

\* C1: the i-th cycle of a run has the number start_frame + i - 1, whatever the
\* outcomes of the cycles before it, so every cycle's number is one more than
\* the previous cycle's and no number is used by two cycles; and the cursor is
\* the start offset plus the number of cycles resolved (Completed or Skipped).
C1_SequenceNumbers ==
    /\ \A i \in DOMAIN cycles : cycles[i].frame = args.start_frame + (i - 1)
    /\ \A i, j \in DOMAIN cycles : i # j => cycles[i].frame # cycles[j].frame
    /\ \A i \in DOMAIN cycles : i < Len(cycles) => Resolved(cycles[i])
    /\ frame_number = args.start_frame + NumResolved

\* a resumed run in which a Skipped and a Completed cycle precede a third cycle
C1_Witness ==
    /\ args.start_frame = 516
    /\ Len(cycles) = 3
    /\ \E i, j \in 1..2 : cycles[i].outcome = "Skipped" /\ cycles[j].outcome = "Completed"

\* C2: a cycle is skipped only once all max_retries attempts have been made;
\* when it is marked Skipped the cursor is one past its number, current_led and
\* brightness_history are what they were when the cycle started, and no image
\* and no metadata file carries the number of a Skipped cycle.
C2_SkippedLeavesNoTrace ==
    /\ \A i \in DOMAIN cycles :
          cycles[i].outcome = "Skipped" =>
             cycles[i].frame \notin (DOMAIN images \cup DOMAIN metas)
    /\ pc \in {"skip", "skip_sleep"} =>
          /\ attempt = args.max_retries
          /\ current_led = LastCycle.led
          /\ brightness_history = LastCycle.history
    /\ pc = "skip" => LastCycle.outcome = "InFlight" /\ frame_number = LastCycle.frame
    /\ pc = "skip_sleep" =>
          LastCycle.outcome = "Skipped" /\ frame_number = LastCycle.frame + 1

\* three failed attempts, after an earlier frame filled the history and moved the LED
C2_Witness ==
    /\ pc = "skip_sleep"
    /\ args.max_retries = 3
    /\ brightness_history # <<>>
    /\ current_led # args.led_initial
    /\ image.kind = "none"

\* C3: brightness_history never holds more than 10 values, and it changes only
\* by update_brightness_history in run(), after the frame of the current number
\* was written, with a successfully captured sample that is consistent with the
\* history as it was; no other step (a failed capture, a rejection) changes it.
C3_HistoryOnlyAccepted ==
    /\ [](Len(brightness_history) <= HistoryMax)
    /\ [][ brightness_history' # brightness_history =>
            /\ pc = "update_history"
            /\ frame_number \in DOMAIN images
            /\ image.kind = "jpeg" /\ image.lum = brightness
            /\ \/ brightness_history = <<>>
               \/ Abs(brightness * Len(brightness_history) - Sum(brightness_history))
                     <= args.consistency_tolerance * Len(brightness_history)
            /\ brightness_history'[Len(brightness_history')] = brightness
         ]_vars

\* the window is full and its oldest sample has been evicted
C3_Witness ==
    /\ Len(brightness_history) = HistoryMax
    /\ Len(accepted) > HistoryMax

\* C4: with k samples accepted so far, get_running_average is None when k = 0
\* and otherwise the mean of the last min(k, 10) of them.
C4_RunningAverage ==
    LET k == Len(accepted)
        m == Min(k, HistoryMax)
        avg == get_running_average
    IN  IF k = 0
        THEN avg = None
        ELSE /\ avg # None
             /\ avg[2] = m
             /\ avg[1] * m = Sum(SubSeq(accepted, k - m + 1, k)) * avg[2]

\* more than 10 samples accepted, and the evicted one differs from the newest
C4_Witness ==
    /\ Len(accepted) > HistoryMax
    /\ accepted[1] # accepted[Len(accepted)]

\* C5: a successfully captured sample b is accepted (the cycle goes on to save
\* it) only if the history is empty or avg - tolerance <= b <= avg + tolerance,
\* and is rejected (the next attempt follows) only if the history is not empty
\* and b lies outside that closed band.
C5_ConsistencyInclusive ==
    [][ (pc = "evaluate" /\ image.kind = "jpeg") =>
          LET n == Len(brightness_history)
              total == Sum(brightness_history)
              tol == args.consistency_tolerance
              b == image.lum
              inBand == /\ total - tol * n <= b * n
                        /\ b * n <= total + tol * n
          IN  /\ pc' \in {"save_image", "attempt", "finish"}
              /\ pc' = "save_image" => (n = 0 \/ inBand)
              /\ pc' = "attempt" => (n # 0 /\ ~inBand /\ attempt' = attempt + 1)
      ]_vars

\* a sample deviating from the running average by exactly the tolerance was accepted
C5_Witness ==
    /\ pc = "save_image"
    /\ brightness_history # <<>>
    /\ Abs(brightness * Len(brightness_history) - Sum(brightness_history))
          = args.consistency_tolerance * Len(brightness_history)

\* C6: calculate_led_adjustment returns 0 within the brightness tolerance, and
\* otherwise min(20, |deviation| / 8 rounded down) with the sign of the deviation.
C6_LedAdjustment ==
    pc = "unit_done" =>
       LET deviation == args.target_brightness - brightness
           magnitude == Min(StepMax, Abs(deviation) \div StepDivisor)
       IN  adjustment = IF Abs(deviation) <= args.brightness_tolerance THEN 0
                        ELSE IF deviation > 0 THEN magnitude
                        ELSE -magnitude

\* target 128, tolerance 30, sample 80: +6
C6_Witness ==
    /\ pc = "unit_done"
    /\ args.target_brightness = 128
    /\ args.brightness_tolerance = 30
    /\ brightness = 80
    /\ adjustment = 6

\* C7: once the run has sent a led_intensity command, the value sent and the
\* actuator level current_led are integers in 0..255, whatever --led-initial was.
C7_LedInRange ==
    led_cmd # None =>
        /\ led_cmd[1] \in 0..LedMax
        /\ current_led \in 0..LedMax

\* the end-of-cycle sleep of the cycle that just ended, in ticks
SleptTicks == IF slept = None THEN 0 ELSE slept[1]

\* C8: when a cycle has ended and another one follows, the time slept at the
\* end of the cycle is max(0, interval - elapsed), elapsed being the time the
\* cycle took, for a Completed and for a Skipped cycle alike.
C8_CadenceSleep ==
    (pc = "loop" /\ cycles # <<>> /\ frame_number < end_frame) =>
        SleptTicks = Max(0, args.interval * 10 - elapsed)

\* C9: when the run has been interrupted, every frame it persisted belongs to
\* a cycle that resolved before the run stopped: the cycle is Completed, the
\* cursor has moved past it, and its sample has entered the history.
C9_InterruptAtCycleBoundary ==
    interrupted =>
        /\ \A n \in DOMAIN images :
              /\ n < frame_number
              /\ \E i \in DOMAIN cycles :
                    cycles[i].frame = n /\ cycles[i].outcome = "Completed"
        /\ Cardinality(DOMAIN images) = Len(accepted)

CompletedFrames == { cycles[i].frame : i \in { j \in DOMAIN cycles : cycles[j].outcome = "Completed" } }

\* C10: when the run has ended and at least one of its cycles Completed, the
\* number logged as the last frame is the largest number of a Completed cycle.
C10_LastFrameIsLastCompleted ==
    (pc = "done" /\ CompletedFrames # {}) =>
        /\ logged_last # None
        /\ logged_last[1] \in CompletedFrames
        /\ \A n \in CompletedFrames : n <= logged_last[1]

\* C11: no error of a setting, an LED command, a capture, the evaluation of an
\* image or the saving of a frame ends run(): the run never leaves its loop by
\* an exception.
C11_ErrorsContained == pc # "crashed"

C13_RunsAllCycles ==
    /\ Len(cycles) <= args.frames
    /\ Len(tries) <= args.max_retries
    /\ (pc \in {"done", "crashed"} /\ ~interrupted) =>
          /\ Len(cycles) = args.frames
          /\ \A i \in DOMAIN cycles : Resolved(cycles[i])
          /\ frame_number = args.start_frame + args.frames

\* the positions of a cycle after capture_with_adaptive_led returned an image
AfterAccept == {"save_image", "save_meta", "update_history", "adjust", "advance"}

\* C14: a cycle never makes more than max_retries attempts; an accepted sample
\* is the last attempt of its cycle, which goes on to save it; a Completed cycle
\* ended with an accepted attempt, and a Skipped cycle made exactly max_retries
\* attempts, each a capture error or a rejection.
C14_AttemptsBounded ==
    /\ Len(tries) <= args.max_retries
    /\ Len(tries) = attempt + Cardinality({ i \in DOMAIN tries : tries[i] = "accepted" })
    /\ pc \in {"settle", "capture", "led_off", "evaluate"} => attempt < args.max_retries
    /\ \A i \in DOMAIN tries :
          tries[i] = "accepted" =>
             /\ i = Len(tries)
             /\ \/ pc \in AfterAccept /\ LastCycle.outcome = "InFlight"
                \/ pc \in {"wait", "loop", "finish", "done"} /\ LastCycle.outcome = "Completed"
                \/ pc \in {"finish", "done", "crashed"} /\ LastCycle.outcome = "InFlight"
    /\ cycles # <<>> =>
          /\ LastCycle.outcome = "Completed" =>
                tries # <<>> /\ tries[Len(tries)] = "accepted"
          /\ LastCycle.outcome = "Skipped" =>
                /\ Len(tries) = args.max_retries
                /\ \A i \in DOMAIN tries : tries[i] \in {"error", "rejected"}

\* a cycle Completed at its third attempt, after a capture error and a rejection
C14_Witness ==
    /\ cycles # <<>>
    /\ LastCycle.outcome = "Completed"
    /\ Len(tries) = 3
    /\ \E i, j \in 1..2 : tries[i] = "error" /\ tries[j] = "rejected"

\* C15: when a capture is about to be requested, the only request of the
\* attempt so far is the LED command, and it carried the current level; and
\* brightness_history and current_led change only in the update steps of
\* run(), after the sample was accepted and the frame (and its metadata, when
\* enabled) was written, never in an attempt.
C15_LedBeforeCaptureUpdatesAfterSave ==
    [][ /\ pc = "capture" => (requests = <<"led">> /\ led_cmd = <<current_led>>)
        /\ pc' = "led_off" => (requests' = <<"led", "capture">> /\ pc = "capture")
        /\ (brightness_history' # brightness_history \/ current_led' # current_led) =>
              /\ pc \in {"update_history", "adjust"}
              /\ tries # <<>> /\ tries[Len(tries)] = "accepted"
              /\ frame_number \in DOMAIN images
              /\ args.save_metadata => frame_number \in DOMAIN metas
      ]_vars

\* a retry, in a run whose LED level was adjusted before: the level is sent again
C15_Witness ==
    /\ pc = "capture"
    /\ attempt > 0
    /\ current_led # args.led_initial
    /\ led_cmd = <<current_led>>

\* C16: when led_always_on is false, by the time the result of a capture is
\* looked at (before the evaluation, the backoff and the next attempt) the
\* attempt has sent exactly: the LED command, the capture, led_intensity=0,
\* for a failed capture as for a successful one; when led_always_on is true
\* no attempt sends an off command.
C16_LedOffAfterCapture ==
    /\ pc = "evaluate" =>
          IF args.led_always_on
          THEN requests = <<"led", "capture">>
          ELSE requests = <<"led", "capture", "off">> /\ led_cmd = <<0>>
    /\ args.led_always_on => \A i \in DOMAIN requests : requests[i] # "off"
    /\ \A i \in DOMAIN requests : requests[i] = "off" => i = 3

\* the capture failed and the LED has been commanded off
C16_Witness ==
    /\ pc = "evaluate"
    /\ image = NoImage
    /\ ~args.led_always_on
    /\ current_led > 0
    /\ led_cmd = <<0>>

\* C17: configure_camera sends the settings one by one whatever the earlier
\* ones returned: once run() is past configure_camera all 26 settings and the
\* initial LED command have been sent, and the run goes on to its loop.
C17_ConfigureBestEffort ==
    /\ cfg_i \in 0..NumSettings
    /\ cfg_failed => pc # "aborted"
    /\ pc \notin {"probe", "aborted", "configure", "unit", "unit_done"} =>
          /\ cfg_i = NumSettings
          /\ led_cmd # None
    /\ pc = "settle_config" => led_cmd = <<args.led_initial>>

\* a setting failed, and the run is in its loop with everything sent
C17_Witness ==
    /\ cfg_failed
    /\ cfg_i = NumSettings
    /\ pc = "capture"

\* the sequence numbers of the cycles that ended Skipped
SkippedFrames == { cycles[i].frame : i \in { j \in DOMAIN cycles : cycles[j].outcome = "Skipped" } }

\* C18 (as stated): at a cycle boundary every Completed number has an image
\* file and a metadata record, a Skipped number has neither, and a number has
\* an image file exactly when it has a metadata record.
C18_ImageIffMetadata ==
    pc = "loop" =>
        /\ \A n \in CompletedFrames : n \in DOMAIN images /\ n \in DOMAIN metas
        /\ \A n \in SkippedFrames : n \notin DOMAIN images /\ n \notin DOMAIN metas
        /\ DOMAIN images = DOMAIN metas

\* C18 (amended): at a cycle boundary every Completed number has an image
\* file and, when save_metadata is on, a metadata record of the same number
\* describing that frame; with save_metadata off there is no metadata record
\* at all; a Skipped number has neither; a metadata record never exists
\* without its image; and unless the run was cut short inside a cycle nothing
\* else is in the directory.
C18_PersistedLayout ==
    pc \in {"loop", "wait", "finish", "done", "crashed"} =>
        /\ \A n \in CompletedFrames :
              /\ n \in DOMAIN images
              /\ args.save_metadata => (n \in DOMAIN metas /\ metas[n].frame = n)
        /\ \A n \in SkippedFrames : n \notin DOMAIN images /\ n \notin DOMAIN metas
        /\ DOMAIN metas \subseteq DOMAIN images
        /\ ~args.save_metadata => metas = EmptyDir
        /\ (pc \in {"loop", "wait"} \/ (pc \in {"finish", "done"} /\ ~interrupted)) =>
              /\ DOMAIN images = CompletedFrames
              /\ args.save_metadata => DOMAIN metas = CompletedFrames

\* a finished run with metadata on, one Completed and one Skipped number
C18_Witness ==
    /\ pc = "done"
    /\ ~interrupted
    /\ args.save_metadata
    /\ CompletedFrames # {}
    /\ SkippedFrames # {}
    /\ \A n \in CompletedFrames : n \in DOMAIN metas

\* C19: a step that changes the image files adds exactly one file, under the
\* current frame number, which had no file yet, lies in
\* [start_frame, start_frame + frames) and is larger than every number
\* already written; the files already there keep their content. The same
\* holds for the metadata records.
C19_WrittenOnceIncreasing ==
    [][ /\ images' # images =>
              /\ pc = "save_image"
              /\ frame_number \notin DOMAIN images
              /\ DOMAIN images' = DOMAIN images \cup {frame_number}
              /\ \A n \in DOMAIN images : images'[n] = images[n] /\ n < frame_number
              /\ frame_number \in args.start_frame .. (args.start_frame + args.frames - 1)
        /\ metas' # metas =>
              /\ pc = "save_meta"
              /\ frame_number \notin DOMAIN metas
              /\ DOMAIN metas' = DOMAIN metas \cup {frame_number}
              /\ \A n \in DOMAIN metas : metas'[n] = metas[n] /\ n < frame_number
              /\ frame_number \in args.start_frame .. (args.start_frame + args.frames - 1)
      ]_vars

\* two frames on disk with a Skipped number between them
C19_Witness ==
    /\ DOMAIN images = {args.start_frame, args.start_frame + 2}
    /\ DOMAIN metas = DOMAIN images
    /\ args.start_frame + 1 \in SkippedFrames

\* the cycle record of sequence number n
CycleOf(n) == CHOOSE i \in DOMAIN cycles : cycles[i].frame = n

\* Mean of a list as an exact fraction, None for the empty list
MeanOf(h) == IF h = <<>> THEN None ELSE <<Sum(h), Len(h)>>

\* C20: the running average in the metadata of frame n is the mean of the
\* history as it was when the cycle of n started, None when no frame had been
\* accepted before; and on acceptance the order is persist, history update,
\* adjustment: while the frame is being written its brightness is not yet in
\* the history, and while the adjustment is pending the level is still the
\* one the cycle started with.
C20_AverageBeforeInsertion ==
    /\ \A n \in DOMAIN metas :
          /\ \E i \in DOMAIN cycles : cycles[i].frame = n
          /\ metas[n].running_avg = MeanOf(cycles[CycleOf(n)].history)
    /\ pc \in {"evaluate", "save_image", "save_meta", "update_history"} =>
          /\ brightness_history = LastCycle.history
          /\ Len(accepted) = Cardinality(CompletedFrames)
    /\ pc \in {"save_image", "save_meta", "update_history", "adjust"} =>
          current_led = LastCycle.led
    /\ pc \in {"adjust", "advance"} =>
          /\ Len(accepted) = Cardinality(CompletedFrames) + 1
          /\ frame_number \in DOMAIN images
          /\ args.save_metadata => frame_number \in DOMAIN metas

\* a first frame recorded with no average, and a later one whose recorded
\* average differs from what it would be with its own brightness included
C20_Witness ==
    /\ \E n \in DOMAIN metas : metas[n].running_avg = None
    /\ \E n \in DOMAIN metas :
          /\ metas[n].running_avg # None
          /\ metas[n].brightness * metas[n].running_avg[2] # metas[n].running_avg[1]

\* C21: every attempt of a cycle sends the level current_led had when the
\* cycle started; that level is the one returned with the accepted image and
\* recorded in the frame's metadata; the adjusted level is first sent in the
\* next cycle.
C21_AdjustmentAppliesNextCycle ==
    /\ pc \in {"settle", "capture"} => led_cmd = <<LastCycle.led>>
    /\ pc \in {"attempt", "settle", "capture", "led_off", "evaluate", "skip",
               "save_image", "save_meta", "update_history", "adjust"} =>
          current_led = LastCycle.led
    /\ pc \in {"save_image", "save_meta"} => led = LastCycle.led
    /\ \A n \in DOMAIN metas :
          /\ \E i \in DOMAIN cycles : cycles[i].frame = n
          /\ metas[n].led_intensity = cycles[CycleOf(n)].led

\* a frame accepted at its second attempt whose adjustment changed the level:
\* the metadata holds the level of the cycle, the next cycle will send the new one
C21_Witness ==
    /\ pc = "advance"
    /\ Len(tries) >= 2
    /\ frame_number \in DOMAIN metas
    /\ metas[frame_number].led_intensity = LastCycle.led
    /\ current_led # LastCycle.led

\* C22: a step that changes current_led is the adjustment after an accepted
\* sample outside the brightness tolerance, moves the level by at most 20,
\* and moves it up for a sample darker than the target and down for a
\* brighter one.
C22_BoundedDirectedStep ==
    [][ current_led' # current_led =>
          /\ pc = "adjust"
          /\ Abs(args.target_brightness - brightness) > args.brightness_tolerance
          /\ Abs(current_led' - current_led) <= StepMax
          /\ brightness < args.target_brightness => current_led' > current_led
          /\ brightness > args.target_brightness => current_led' < current_led
      ]_vars

\* C23: every image written has a name of the same length as the name of
\* frame 0, names of distinct numbers differ, and find_images on the output
\* directory returns exactly the persisted frame numbers in ascending order,
\* gaps included.
C23_NamesAgree ==
    /\ \A n \in DOMAIN images :
          Len(generate_filename(n)) = Len(generate_filename(0))
    /\ \A n, m \in DOMAIN images :
          n # m => generate_filename(n) # generate_filename(m)
    /\ find_images(Listing) = SortedSeq(DOMAIN images)

\* the sleeps of the finished attempts of a cycle: a settle delay in each,
\* then the backoff of a failed or rejected one
RECURSIVE TrySleeps(_)
TrySleeps(t) ==
    IF t = <<>> THEN <<>>
    ELSE <<"settle">>
         \o (IF Head(t) = "error" THEN <<"error_backoff">>
             ELSE IF Head(t) = "rejected" THEN <<"reject_backoff">>
             ELSE <<>>)
         \o TrySleeps(Tail(t))

Deviates(b) ==
    LET n == Len(brightness_history)
    IN  Abs(b * n - Sum(brightness_history)) > args.consistency_tolerance * n

\* cycle k was Skipped, or is the current one and has accepted nothing so far
NothingAccepted(k) ==
    \/ cycles[k].outcome = "Skipped"
    \/ /\ k = Len(cycles)
       /\ cycles[k].outcome = "InFlight"
       /\ \A t \in DOMAIN tries : tries[t] # "accepted"

\* from any cycle on which nothing was accepted any more, the history and the
\* level are the ones that cycle started with
FrozenSince(i) ==
    (\A k \in i..Len(cycles) : NothingAccepted(k)) =>
        /\ brightness_history = cycles[i].history
        /\ current_led = cycles[i].led
        /\ \A k \in i..Len(cycles) :
              cycles[k].history = cycles[i].history /\ cycles[k].led = cycles[i].led

\* C25: with a non-empty history, a captured sample outside the band is
\* rejected and changes neither the history nor the level; a cycle whose
\* attempts were all failed or rejected ends Skipped; and for as long as
\* cycles accept nothing, the history, hence the running average and the
\* band, and current_led stay what they were: nothing moves the band towards
\* the samples that are being rejected.
C25_BandFrozenWhileRejecting ==
    [][ /\ (pc = "evaluate" /\ image.kind = "jpeg" /\ brightness_history # <<>>
            /\ Deviates(image.lum)) =>
              /\ pc' \in {"attempt", "finish"}
              /\ brightness_history' = brightness_history
              /\ current_led' = current_led
              /\ pc' = "attempt" => tries' = Append(tries, "rejected")
        /\ (pc = "attempt" /\ ~(attempt < args.max_retries) /\ pc' # "finish") =>
              /\ \A t \in DOMAIN tries : tries[t] \in {"error", "rejected"}
              /\ pc' = "skip"
        /\ (pc = "skip" /\ pc' # "finish") =>
              cycles'[Len(cycles')].outcome = "Skipped"
        /\ \A i \in DOMAIN cycles' : FrozenSince(i)'
      ]_vars

\* after an accepted frame, two cycles in a row were Skipped, the last one on
\* a rejected sample; the history is still the one of the accepted frame
C25_Witness ==
    /\ pc = "loop"
    /\ Len(cycles) = 3
    /\ cycles[1].outcome = "Completed"
    /\ cycles[2].outcome = "Skipped"
    /\ cycles[3].outcome = "Skipped"
    /\ tries # <<>>
    /\ \A t \in DOMAIN tries : tries[t] = "rejected"
    /\ brightness_history = cycles[2].history
    /\ Len(brightness_history) = 1

\* C26 (as stated): with led_always_on off and max_retries >= 1, the last
\* led_intensity command is 0 when an end-of-cycle wait starts and when a run
\* that reached its frame count has ended.
C26_LedOffWhenIdle ==
    (~args.led_always_on /\ args.max_retries >= 1) =>
        /\ pc \in {"wait", "skip_sleep"} => led_cmd = <<0>>
        /\ (pc = "done" /\ ~interrupted /\ frame_number = end_frame) => led_cmd = <<0>>

\* C26 (amended): with led_always_on off and max_retries >= 1, the last
\* led_intensity command is 0 when an end-of-cycle wait starts, between
\* cycles, and when a run of at least one frame that reached its frame count
\* has ended; a run of no frames ends with the LED at the level set by
\* configure_camera.
C26_LedOffAfterACycle ==
    (~args.led_always_on /\ args.max_retries >= 1) =>
        /\ pc \in {"wait", "skip_sleep"} => led_cmd = <<0>>
        /\ (pc = "loop" /\ cycles # <<>>) => led_cmd = <<0>>
        /\ (pc = "done" /\ ~interrupted /\ frame_number = end_frame) =>
              led_cmd = IF args.frames >= 1 THEN <<0>> ELSE <<args.led_initial>>

\* a finished run whose last cycle was Completed with the LED in use
C26_Witness ==
    /\ pc = "done"
    /\ ~interrupted
    /\ ~args.led_always_on
    /\ args.max_retries >= 1
    /\ args.frames >= 1
    /\ LastCycle.outcome = "Completed"
    /\ LastCycle.led > 0
    /\ led_cmd = <<0>>

\* C27: for every d the adjustment for brightness target + d is the negation
\* of the adjustment for brightness target - d; in particular the adjustment
\* just computed is the negation of the one for the brightness mirrored
\* about the target.
C27_OddSymmetric ==
    pc = "unit_done" =>
        /\ adjustment = -calculate_led_adjustment(2 * args.target_brightness - brightness)
        /\ \A d \in 0..PixelMax :
              calculate_led_adjustment(args.target_brightness + d)
                 = -calculate_led_adjustment(args.target_brightness - d)

\* an over-exposed sample whose deviation is not a multiple of 8: -35 gives -4
C27_Witness ==
    /\ pc = "unit_done"
    /\ args.target_brightness - brightness = -35
    /\ adjustment = -4
    /\ calculate_led_adjustment(args.target_brightness + 35) = -4
    /\ calculate_led_adjustment(args.target_brightness - 35) = 4

====
